---- MODULE Spec2Model ----
(***************************************************************************)
(* Model of mdp/hinet/switchboard.py: the generic Switchboard, the         *)
(* ChannelSwitchboard and the 2d switchboards that generate connection     *)
(* tables.  One switchboard object is alive at a time; each action is one  *)
(* constructor or method call on it.  Vectors are single data rows (the    *)
(* code routes every row of a 2d array the same way).  Sequences are       *)
(* 1-based here, the slot numbers stored in them are 0-based as in the     *)
(* code.  Integer division is Python 2's (the module has no                *)
(* "from __future__ import division").                                     *)
(***************************************************************************)
EXTENDS Integers, Sequences, FiniteSets

VARIABLES cls, input_dim, output_dim, connections, inverse_connections,
          out_channel_dim, in_channel_dim, output_channels, geom,
          op, arg, ret, raised, chain

vars == <<cls, input_dim, output_dim, connections, inverse_connections,
          out_channel_dim, in_channel_dim, output_channels, geom,
          op, arg, ret, raised, chain>>

(* ---------------------------- bounds ----------------------------------- *)

\* largest input dimension and longest connection sequence of a hand-made table
MaxDim == 3

\* out_channel_dim and in_channel_dim of a hand-made channel switchboard
MaxChannelDim == 2
\* longest sequence of output channels asked for in one query
MaxSel == 2

\* grid sizes, field sizes, spacings and channel dimension of a 2d switchboard
MaxXIn == 6
MaxYIn == 4
MaxField == 3
MaxSpacing == 2
MaxInChannelDim == 2

\* grid and field sizes of a double-cover switchboard
MaxDoubleXIn == 8
MaxDoubleYIn == 8
MaxDoubleField == 4

\* width and height of a coordinate translator's grid
MaxImageDim == 3

\* long-row counts and diagonal field size of a rhombic switchboard
MaxLongIn == 7
MaxDiag == 4

(* ------------------------ generic helpers ------------------------------ *)

\* Python's None for the inverse table (a stored inverse is never empty)
None == << >>

\* no preceding call whose result is the current argument
NoChain == [op |-> "none", arg |-> << >>]

\* no geometry attributes (objects that are not 2d switchboards)
NoGeom == [x_unused_channels |-> 0, y_unused_channels |-> 0]

Max(S) == CHOOSE m \in S : \A e \in S : e <= m

Elems(s) == {s[i] : i \in 1..Len(s)}

\* all sequences over S of length 0..n
SeqsUpTo(S, n) == UNION {[1..k -> S] : k \in 0..n}

\* numpy index normalisation on an axis of length n: a negative index e
\* counts from the end; the result is a 0-based position, valid iff InAxis
InAxis(n, e) == -n <= e /\ e < n
NpPos(n, e) == IF e < 0 THEN n + e ELSE e

\* x[:, idx] for one row x: fancy indexing with the index array idx
TakeOk(x, idx) == \A i \in 1..Len(idx) : InAxis(Len(x), idx[i])
Take(x, idx) == [i \in 1..Len(idx) |-> x[NpPos(Len(x), idx[i]) + 1]]

\* numx.argsort of an array of distinct values: 0-based positions by value
argsort(a) ==
    [k \in 1..Len(a) |->
        (CHOOSE i \in 1..Len(a) :
            Cardinality({j \in 1..Len(a) : a[j] < a[i]}) = k - 1) - 1]

(* --------------------------- Switchboard ------------------------------- *)

\* SwitchboardCheck with the bound test off by one (> for >=)
SwitchboardCheckGt(idim, conns) ==
    IF Len(conns) = 0 THEN "InvalidConnections"
    ELSE IF Max(Elems(conns)) > idim THEN "InvalidConnections"
    ELSE "ok"

\* the two checks of Switchboard.__init__; "ok" when they pass
SwitchboardCheck(idim, conns) ==
    IF Len(conns) = 0 THEN "InvalidConnections"
    ELSE IF Max(Elems(conns)) >= idim THEN "InvalidConnections"
    ELSE "ok"

\* the inverse table Switchboard.__init__ stores
InverseOf(idim, conns) ==
    IF idim = Len(conns) /\ Cardinality(Elems(conns)) = idim
    THEN argsort(conns)
    ELSE None

\* is_invertible answering from the dimensions instead of the stored inverse
is_invertible_dims == input_dim = output_dim

is_invertible == IF inverse_connections = None THEN FALSE ELSE TRUE

Init ==
    /\ cls = "none"
    /\ input_dim = 0
    /\ output_dim = 0
    /\ connections = << >>
    /\ inverse_connections = None
    /\ out_channel_dim = 0
    /\ in_channel_dim = 0
    /\ output_channels = 0
    /\ geom = NoGeom
    /\ op = "none"
    /\ arg = << >>
    /\ ret = << >>
    /\ raised = "none"
    /\ chain = NoChain

\* a constructor that raised leaves no object behind
NoObject(opname, a, err) ==
    /\ cls' = "none"
    /\ input_dim' = 0
    /\ output_dim' = 0
    /\ connections' = << >>
    /\ inverse_connections' = None
    /\ out_channel_dim' = 0
    /\ in_channel_dim' = 0
    /\ output_channels' = 0
    /\ geom' = NoGeom
    /\ op' = opname
    /\ arg' = a
    /\ ret' = << >>
    /\ raised' = err
    /\ chain' = NoChain

\* the attributes Switchboard.__init__ sets once its checks passed
SwitchboardFields(idim, conns) ==
    /\ input_dim' = idim
    /\ output_dim' = Len(conns)
    /\ connections' = conns
    /\ inverse_connections' = InverseOf(idim, conns)

Entries == (0 - MaxDim)..MaxDim

\* a behaviour follows one object: its construction, then calls on it
SwitchboardInit ==
    /\ op = "none"
    /\ \E idim \in 1..MaxDim, conns \in SeqsUpTo(Entries, MaxDim) :
        LET a == [input_dim |-> idim, connections |-> conns]
            c == SwitchboardCheck(idim, conns)
        IN  IF c # "ok"
            THEN NoObject("Switchboard", a, c)
            ELSE /\ cls' = "Switchboard"
                 /\ SwitchboardFields(idim, conns)
                 /\ out_channel_dim' = 0
                 /\ in_channel_dim' = 0
                 /\ output_channels' = 0
                 /\ geom' = NoGeom
                 /\ op' = "Switchboard"
                 /\ arg' = a
                 /\ ret' = << >>
                 /\ raised' = "none"
                 /\ chain' = NoChain

\* data rows of width n; 0/1 entries tell any two routings apart
Vectors(n) == [1..n -> {0, 1}]

\* the call before this one, when this call's argument x is its result
ChainOf(x) ==
    IF op \in {"execute", "inverse"} /\ raised = "none" /\ x = ret
    THEN [op |-> op, arg |-> arg]
    ELSE NoChain

objvars == <<cls, input_dim, output_dim, connections, inverse_connections,
             out_channel_dim, in_channel_dim, output_channels, geom>>

_execute(x) == Take(x, connections)

Execute ==
    /\ cls # "none"
    /\ \E x \in Vectors(input_dim) :
        /\ op' = "execute"
        /\ arg' = x
        /\ chain' = ChainOf(x)
        /\ IF TakeOk(x, connections)
           THEN ret' = _execute(x) /\ raised' = "none"
           ELSE ret' = << >> /\ raised' = "IndexError"
    /\ UNCHANGED objvars

_inverse(x) == Take(x, inverse_connections)

Inverse ==
    /\ cls # "none"
    /\ \E x \in Vectors(output_dim) :
        /\ op' = "inverse"
        /\ arg' = x
        /\ chain' = ChainOf(x)
        /\ IF inverse_connections = None
           THEN ret' = << >> /\ raised' = "NotInvertible"
           ELSE ret' = _inverse(x) /\ raised' = "none"
    /\ UNCHANGED objvars

Next == SwitchboardInit \/ Execute \/ Inverse

Spec == Init /\ [][Next]_vars

(* ------------------------ ChannelSwitchboard --------------------------- *)

ChannelSwitchboardInit ==
    /\ op = "none"
    /\ \E idim \in 1..MaxDim, conns \in SeqsUpTo(Entries, MaxDim),
          ocd \in 1..MaxChannelDim, icd \in 1..MaxChannelDim :
        LET a == [input_dim |-> idim, connections |-> conns,
                  out_channel_dim |-> ocd, in_channel_dim |-> icd]
            c == SwitchboardCheck(idim, conns)
        IN  IF c # "ok"
            THEN NoObject("ChannelSwitchboard", a, c)
            ELSE /\ cls' = "ChannelSwitchboard"
                 /\ SwitchboardFields(idim, conns)
                 /\ out_channel_dim' = ocd
                 /\ in_channel_dim' = icd
                 /\ output_channels' = Len(conns) \div ocd
                 /\ geom' = NoGeom
                 /\ op' = "ChannelSwitchboard"
                 /\ arg' = a
                 /\ ret' = << >>
                 /\ raised' = "none"
                 /\ chain' = NoChain

\* Python slice a[lo:hi] of a 1d array, 0 <= lo <= hi (clamped to the array)
Slice(a, lo, hi) ==
    LET h == IF hi > Len(a) THEN Len(a) ELSE hi
    IN  IF lo >= h THEN << >> ELSE SubSeq(a, lo + 1, h)

get_out_channel_input(channel) ==
    LET index == channel * out_channel_dim
    IN  Slice(connections, index, index + out_channel_dim)

GetOutChannelInput ==
    /\ cls # "none"
    /\ \E channel \in 0..output_channels :
        /\ op' = "get_out_channel_input"
        /\ arg' = channel
        /\ ret' = get_out_channel_input(channel)
        /\ raised' = "none"
        /\ chain' = NoChain
    /\ UNCHANGED objvars

RECURSIVE Concat(_)
\* the sequences of ss joined in order (split in halves to keep the
\* recursion shallow)
Concat(ss) ==
    IF Len(ss) = 0 THEN << >>
    ELSE IF Len(ss) = 1 THEN ss[1]
    ELSE LET h == Len(ss) \div 2
         IN  Concat(SubSeq(ss, 1, h)) \o Concat(SubSeq(ss, h + 1, Len(ss)))

\* the members of a set of integers in ascending order (nonzero()[0])
Ascending(S) ==
    [k \in 1..Cardinality(S) |->
        CHOOSE e \in S : Cardinality({f \in S : f < e}) = k - 1]

\* row r (0-based) of connections.reshape((-1, out_channel_dim))
ChannelRow(r) ==
    SubSeq(connections, r * out_channel_dim + 1, (r + 1) * out_channel_dim)

\* get_out_channels_input_channels on the already listified channels:
\* the exception it raises ("none" if it returns) ...
CoveredRaises(channels) ==
    LET rows == output_dim \div out_channel_dim
    IN  IF output_dim % out_channel_dim # 0 THEN "ValueError"
        ELSE IF \E i \in 1..Len(channels) : ~InAxis(rows, channels[i])
             THEN "IndexError"
        ELSE IF \E i \in 1..Len(channels) :
                  \E e \in Elems(ChannelRow(NpPos(rows, channels[i]))) :
                      ~InAxis(input_dim, e)
             THEN "IndexError"
        ELSE IF input_dim % in_channel_dim # 0 THEN "ValueError"
        ELSE "none"

\* ... and the array it returns
get_out_channels_input_channels(channels) ==
    LET rows == output_dim \div out_channel_dim
        channels_input ==
            Concat([i \in 1..Len(channels) |->
                        ChannelRow(NpPos(rows, channels[i]))])
        covered == [p \in 0..(input_dim - 1) |->
                        \E i \in 1..Len(channels_input) :
                            NpPos(input_dim, channels_input[i]) = p]
        folded == [g \in 0..((input_dim \div in_channel_dim) - 1) |->
                        \E j \in 0..(in_channel_dim - 1) :
                            covered[g * in_channel_dim + j]]
    IN  Ascending({g \in DOMAIN folded : folded[g]})

\* the channels argument: one index, or a sequence of 1..MaxSel indices
ChannelArgs ==
    [single : {TRUE}, channels : [1..1 -> 0..output_channels]] \cup
    [single : {FALSE},
     channels : UNION {[1..k -> 0..output_channels] : k \in 1..MaxSel}]

GetOutChannelsInputChannels ==
    /\ cls # "none"
    /\ \E a \in ChannelArgs :
        LET err == CoveredRaises(a.channels)
        IN  /\ op' = "get_out_channels_input_channels"
            /\ arg' = a
            /\ raised' = err
            /\ ret' = IF err = "none"
                      THEN get_out_channels_input_channels(a.channels)
                      ELSE << >>
            /\ chain' = NoChain
    /\ UNCHANGED objvars

NextChannel ==
    ChannelSwitchboardInit \/ GetOutChannelInput \/ GetOutChannelsInputChannels

SpecChannel == Init /\ [][NextChannel]_vars

(* ----------------------- CoordinateTranslator -------------------------- *)

\* the two range checks of image_to_index
InImage(x_image_dim, y_image_dim, x, y) ==
    /\ 0 <= x /\ x < x_image_dim
    /\ 0 <= y /\ y < y_image_dim

\* its return value when the checks pass
image_to_index(x_image_dim, y_image_dim, x, y) == y * x_image_dim + x

\* the two range checks of array_to_index
InArray(x_image_dim, y_image_dim, row, col) ==
    /\ 0 <= row /\ row < y_image_dim
    /\ 0 <= col /\ col < x_image_dim

\* its return value when the checks pass
array_to_index(x_image_dim, y_image_dim, row, col) == row * x_image_dim + col

\* the range check of index_to_array and index_to_image
InIndex(max_index, index) == 0 <= index /\ index <= max_index

\* (row, col) of an index
index_to_array(x_image_dim, index) ==
    <<index \div x_image_dim, index % x_image_dim>>

\* index_to_image with the two coordinates swapped
index_to_image_swapped(x_image_dim, index) ==
    <<index \div x_image_dim, index % x_image_dim>>

\* (x, y) of an index
index_to_image(x_image_dim, index) ==
    <<index % x_image_dim, index \div x_image_dim>>

CoordinateTranslatorInit ==
    /\ op = "none"
    /\ \E x_image_dim \in 1..MaxImageDim, y_image_dim \in 1..MaxImageDim :
        /\ cls' = "CoordinateTranslator"
        /\ geom' = [x_image_dim |-> x_image_dim,
                    y_image_dim |-> y_image_dim,
                    max_index |-> x_image_dim * y_image_dim - 1]
        /\ op' = "CoordinateTranslator"
        /\ arg' = <<x_image_dim, y_image_dim>>
        /\ ret' = << >>
        /\ raised' = "none"
        /\ chain' = NoChain
        /\ UNCHANGED <<input_dim, output_dim, connections,
                       inverse_connections, out_channel_dim, in_channel_dim,
                       output_channels>>

\* coordinates and indices handed to a translator, also out of range
Coordinates == (0 - 1)..MaxImageDim
Indices == (0 - 1)..(MaxImageDim * MaxImageDim)

\* the translator call before this one, when this call's arguments a are
\* what it returned
TranslatorChainOf(a) ==
    IF /\ op \in {"image_to_index", "array_to_index",
                   "index_to_array", "index_to_image"}
       /\ raised = "none"
       /\ a = ret
    THEN [op |-> op, arg |-> arg]
    ELSE NoChain

\* one translator call: arguments a, result r, made if valid holds
TranslatorCall(name, a, valid, r) ==
    /\ op' = name
    /\ arg' = a
    /\ chain' = TranslatorChainOf(a)
    /\ IF valid
       THEN ret' = r /\ raised' = "none"
       ELSE ret' = << >> /\ raised' = "OutOfRange"
    /\ UNCHANGED objvars

ImageToIndex ==
    /\ cls = "CoordinateTranslator"
    /\ \E x \in Coordinates, y \in Coordinates :
        TranslatorCall("image_to_index", <<x, y>>,
            InImage(geom.x_image_dim, geom.y_image_dim, x, y),
            <<image_to_index(geom.x_image_dim, geom.y_image_dim, x, y)>>)

ArrayToIndex ==
    /\ cls = "CoordinateTranslator"
    /\ \E row \in Coordinates, col \in Coordinates :
        TranslatorCall("array_to_index", <<row, col>>,
            InArray(geom.x_image_dim, geom.y_image_dim, row, col),
            <<array_to_index(geom.x_image_dim, geom.y_image_dim, row, col)>>)

IndexToArray ==
    /\ cls = "CoordinateTranslator"
    /\ \E index \in Indices :
        TranslatorCall("index_to_array", <<index>>,
            InIndex(geom.max_index, index),
            index_to_array(geom.x_image_dim, index))

IndexToImage ==
    /\ cls = "CoordinateTranslator"
    /\ \E index \in Indices :
        TranslatorCall("index_to_image", <<index>>,
            InIndex(geom.max_index, index),
            index_to_image(geom.x_image_dim, index))

NextTranslator ==
    \/ CoordinateTranslatorInit
    \/ ImageToIndex
    \/ ArrayToIndex
    \/ IndexToArray
    \/ IndexToImage

SpecTranslator == Init /\ [][NextTranslator]_vars

(* ----------------------- table generation helpers ---------------------- *)

\* Python's range(a, b) as a list
PyRange(a, b) == [i \in 1..(b - a) |-> a + i - 1]

\* A for loop over a list r that appends to an output list is written
\* Concat([i \in DOMAIN r |-> body(r[i])]): the pieces appended, in order.

\* numx.zeros([n]) after the loop has written the slots in w from slot 0 on
FillZeros(n, w) == [i \in 1..n |-> IF i <= Len(w) THEN w[i] ELSE 0]

\* connections[first_out_con : first_out_con + d] = range(...) fails when the
\* slice is cut short by the end of the array (a single value still
\* broadcasts); cells is the number of assignments the loops make
AssignRaises(n, cells, d) == d # 1 /\ cells * d > n

\* the slots written for the grid cells visited, in order
CellSlots(x_dim, y_dim, cells, d) ==
    Concat([i \in DOMAIN cells |->
        LET first_in_con ==
                image_to_index(x_dim, y_dim, cells[i][1], cells[i][2]) * d
        IN  PyRange(first_in_con, first_in_con + d)])

(* --------------------- Rectangular2dSwitchboard ------------------------ *)

\* x_unused_channels / y_unused_channels as computed for one axis
RectUnused(in_channels, field_channels, field_spacing) ==
    LET u == in_channels - field_channels
    IN  IF u > 0 THEN u % field_spacing
        ELSE IF u < 0 THEN in_channels
        ELSE u

\* RectOutChannels forgetting to subtract the field size
RectOutChannelsNoField(in_channels, field_channels, field_spacing) ==
    in_channels \div field_spacing + 1

\* number of output channels along one axis
RectOutChannels(in_channels, field_channels, field_spacing) ==
    (in_channels - field_channels) \div field_spacing + 1

\* RectField with the two inner loops exchanged (y outer, x inner)
RectFieldRowsFirst(a, x_start_chan, y_start_chan) ==
    LET xs == PyRange(x_start_chan, x_start_chan + a.x_field_channels)
        ys == PyRange(y_start_chan, y_start_chan + a.y_field_channels)
    IN  Concat([j \in DOMAIN ys |-> [i \in DOMAIN xs |-> <<xs[i], ys[j]>>]])

\* the cells (x, y) of one field in the order of the two inner loops
\* (x outer, y inner)
RectField(a, x_start_chan, y_start_chan) ==
    LET xs == PyRange(x_start_chan, x_start_chan + a.x_field_channels)
        ys == PyRange(y_start_chan, y_start_chan + a.y_field_channels)
    IN  Concat([i \in DOMAIN xs |-> [j \in DOMAIN ys |-> <<xs[i], ys[j]>>]])

\* the grid cells in the order the four nested loops visit them
RectCells(a, x_out_channels, y_out_channels) ==
    LET y_out == PyRange(0, y_out_channels)
        x_out == PyRange(0, x_out_channels)
    IN  Concat([j \in DOMAIN y_out |->
          Concat([i \in DOMAIN x_out |->
            RectField(a, x_out[i] * a.x_field_spacing,
                         y_out[j] * a.y_field_spacing)])])

\* RectCheck with the y field-size check made after the x coverage check
RectCheckLate(a) ==
    IF a.x_field_channels > a.x_in_channels THEN "FieldTooLarge"
    ELSE IF a.x_field_spacing = 0 THEN "ZeroDivisionError"
    ELSE IF RectUnused(a.x_in_channels, a.x_field_channels,
                       a.x_field_spacing) # 0 /\ ~a.ignore_cover
         THEN "IncompleteCoverage"
    ELSE IF a.y_field_channels > a.y_in_channels THEN "FieldTooLarge"
    ELSE IF a.y_field_spacing = 0 THEN "ZeroDivisionError"
    ELSE IF RectUnused(a.y_in_channels, a.y_field_channels,
                       a.y_field_spacing) # 0 /\ ~a.ignore_cover
         THEN "IncompleteCoverage"
    ELSE "ok"

\* the exception raised by the parameter checks, in the order of the code
RectCheck(a) ==
    IF a.x_field_channels > a.x_in_channels THEN "FieldTooLarge"
    ELSE IF a.y_field_channels > a.y_in_channels THEN "FieldTooLarge"
    ELSE IF a.x_field_spacing = 0 THEN "ZeroDivisionError"
    ELSE IF RectUnused(a.x_in_channels, a.x_field_channels,
                       a.x_field_spacing) # 0 /\ ~a.ignore_cover
         THEN "IncompleteCoverage"
    ELSE IF a.y_field_spacing = 0 THEN "ZeroDivisionError"
    ELSE IF RectUnused(a.y_in_channels, a.y_field_channels,
                       a.y_field_spacing) # 0 /\ ~a.ignore_cover
         THEN "IncompleteCoverage"
    ELSE "ok"

RectArgs ==
    [x_in_channels : 0..MaxXIn, y_in_channels : 0..MaxYIn,
     x_field_channels : 0..MaxField, y_field_channels : 0..MaxField,
     x_field_spacing : 0..MaxSpacing, y_field_spacing : 0..MaxSpacing,
     in_channel_dim : 1..MaxInChannelDim, ignore_cover : BOOLEAN]

\* what the constructor does once the parameter checks passed: generate the
\* table and hand it to the base-class constructors
RectBuild(a, cells, conns) ==
    LET ocd == a.in_channel_dim * a.x_field_channels * a.y_field_channels
        xo == RectOutChannels(a.x_in_channels, a.x_field_channels,
                              a.x_field_spacing)
        yo == RectOutChannels(a.y_in_channels, a.y_field_channels,
                              a.y_field_spacing)
        idim == a.x_in_channels * a.y_in_channels * a.in_channel_dim
        err == IF \E c \in Elems(cells) :
                     ~InImage(a.x_in_channels, a.y_in_channels, c[1], c[2])
               THEN "OutOfRange"
               ELSE IF AssignRaises(xo * yo * ocd, Len(cells),
                                    a.in_channel_dim)
                    THEN "ValueError"
               ELSE SwitchboardCheck(idim, conns)
    IN  IF err # "ok"
        THEN NoObject("Rectangular2dSwitchboard", a, err)
        ELSE /\ cls' = "Rectangular2dSwitchboard"
             /\ SwitchboardFields(idim, conns)
             /\ out_channel_dim' = ocd
             /\ in_channel_dim' = a.in_channel_dim
             /\ output_channels' = Len(conns) \div ocd
             /\ geom' = [x_unused_channels |->
                            RectUnused(a.x_in_channels, a.x_field_channels,
                                       a.x_field_spacing),
                         y_unused_channels |->
                            RectUnused(a.y_in_channels, a.y_field_channels,
                                       a.y_field_spacing),
                         x_out_channels |-> xo,
                         y_out_channels |-> yo]
             /\ op' = "Rectangular2dSwitchboard"
             /\ arg' = a
             /\ ret' = << >>
             /\ raised' = "none"
             /\ chain' = NoChain

Rectangular2dSwitchboardInit ==
    /\ op = "none"
    /\ \E a \in RectArgs :
        IF RectCheck(a) # "ok"
        THEN NoObject("Rectangular2dSwitchboard", a, RectCheck(a))
        ELSE LET ocd == a.in_channel_dim * a.x_field_channels
                            * a.y_field_channels
                 xo == RectOutChannels(a.x_in_channels, a.x_field_channels,
                                       a.x_field_spacing)
                 yo == RectOutChannels(a.y_in_channels, a.y_field_channels,
                                       a.y_field_spacing)
             IN  \E cells \in {RectCells(a, xo, yo)} :
                 \E conns \in {FillZeros(xo * yo * ocd,
                                  CellSlots(a.x_in_channels, a.y_in_channels,
                                            cells, a.in_channel_dim))} :
                     RectBuild(a, cells, conns)

NextRect == Rectangular2dSwitchboardInit

SpecRect == Init /\ [][NextRect]_vars

(* ---------------------- DoubleRect2dSwitchboard ------------------------ *)

\* x_unused_channels / y_unused_channels for one axis; the spacing is half
\* the field size
DoubleRectUnused(in_channels, field_channels) ==
    LET u == in_channels - field_channels
        field_spacing == field_channels \div 2
    IN  IF u > 0 THEN u % field_spacing
        ELSE IF u < 0 THEN in_channels
        ELSE u

\* DoubleRectAxisCheck without the test for short rows as long as long rows
DoubleRectAxisCheckNoShortRow(in_channels, field_channels, ignore_cover) ==
    IF field_channels = 0 THEN "ZeroDivisionError"
    ELSE IF DoubleRectUnused(in_channels, field_channels) # 0 /\ ~ignore_cover
         THEN "IncompleteCoverage"
    ELSE "ok"

\* the checks made for one axis after both field-size checks
DoubleRectAxisCheck(in_channels, field_channels, ignore_cover) ==
    IF field_channels = 0 THEN "ZeroDivisionError"
    ELSE IF DoubleRectUnused(in_channels, field_channels) # 0 /\ ~ignore_cover
         THEN "IncompleteCoverage"
    ELSE IF in_channels - (in_channels \div field_channels) * field_channels
                >= field_channels \div 2
         THEN "ShortRowDegenerate"
    ELSE "ok"

\* DoubleRectCheck testing the field sizes against the grid before evenness
DoubleRectCheckSizeFirst(a) ==
    IF a.x_field_channels > a.x_in_channels THEN "FieldTooLarge"
    ELSE IF a.y_field_channels > a.y_in_channels THEN "FieldTooLarge"
    ELSE IF a.x_field_channels % 2 # 0 THEN "OddFieldSize"
    ELSE IF a.y_field_channels % 2 # 0 THEN "OddFieldSize"
    ELSE IF DoubleRectAxisCheck(a.x_in_channels, a.x_field_channels,
                                a.ignore_cover) # "ok"
         THEN DoubleRectAxisCheck(a.x_in_channels, a.x_field_channels,
                                  a.ignore_cover)
    ELSE DoubleRectAxisCheck(a.y_in_channels, a.y_field_channels,
                             a.ignore_cover)

\* the exception raised by the parameter checks, in the order of the code
DoubleRectCheck(a) ==
    IF a.x_field_channels % 2 # 0 THEN "OddFieldSize"
    ELSE IF a.y_field_channels % 2 # 0 THEN "OddFieldSize"
    ELSE IF a.x_field_channels > a.x_in_channels THEN "FieldTooLarge"
    ELSE IF a.y_field_channels > a.y_in_channels THEN "FieldTooLarge"
    ELSE IF DoubleRectAxisCheck(a.x_in_channels, a.x_field_channels,
                                a.ignore_cover) # "ok"
         THEN DoubleRectAxisCheck(a.x_in_channels, a.x_field_channels,
                                  a.ignore_cover)
    ELSE DoubleRectAxisCheck(a.y_in_channels, a.y_field_channels,
                             a.ignore_cover)

\* the cells of one field, rows first (y outer, x inner)
DoubleRectField(a, x_start_chan, y_start_chan) ==
    LET ys == PyRange(y_start_chan, y_start_chan + a.y_field_channels)
        xs == PyRange(x_start_chan, x_start_chan + a.x_field_channels)
    IN  Concat([j \in DOMAIN ys |-> [i \in DOMAIN xs |-> <<xs[i], ys[j]>>]])

\* DoubleRectCells with the uneven fields not shifted by half a field in x
DoubleRectCellsNoShift(a) ==
    LET x_field_spacing == a.x_field_channels \div 2
        y_field_spacing == a.y_field_channels \div 2
        even_x_out_channels == a.x_in_channels \div (2 * x_field_spacing)
        even_y_out_channels == a.y_in_channels \div (2 * y_field_spacing)
        ey == PyRange(0, even_y_out_channels)
        ex == PyRange(0, even_x_out_channels)
        uy == PyRange(0, even_y_out_channels - 1)
        ux == PyRange(0, even_x_out_channels - 1)
        even ==
          Concat([j \in DOMAIN ey |->
            Concat([i \in DOMAIN ex |->
              DoubleRectField(a, ex[i] * (2 * x_field_spacing),
                                 ey[j] * (2 * y_field_spacing))])])
        uneven ==
          Concat([j \in DOMAIN uy |->
            Concat([i \in DOMAIN ux |->
              DoubleRectField(a,
                  ux[i] * (2 * x_field_spacing),
                  uy[j] * (2 * y_field_spacing) + y_field_spacing)])])
    IN  even \o uneven

\* the grid cells visited by the even loops, then by the uneven loops
DoubleRectCells(a) ==
    LET x_field_spacing == a.x_field_channels \div 2
        y_field_spacing == a.y_field_channels \div 2
        even_x_out_channels == a.x_in_channels \div (2 * x_field_spacing)
        even_y_out_channels == a.y_in_channels \div (2 * y_field_spacing)
        ey == PyRange(0, even_y_out_channels)
        ex == PyRange(0, even_x_out_channels)
        uy == PyRange(0, even_y_out_channels - 1)
        ux == PyRange(0, even_x_out_channels - 1)
        even ==
          Concat([j \in DOMAIN ey |->
            Concat([i \in DOMAIN ex |->
              DoubleRectField(a, ex[i] * (2 * x_field_spacing),
                                 ey[j] * (2 * y_field_spacing))])])
        uneven ==
          Concat([j \in DOMAIN uy |->
            Concat([i \in DOMAIN ux |->
              DoubleRectField(a,
                  ux[i] * (2 * x_field_spacing) + x_field_spacing,
                  uy[j] * (2 * y_field_spacing) + y_field_spacing)])])
    IN  even \o uneven

DoubleRectArgs ==
    [x_in_channels : 0..MaxDoubleXIn, y_in_channels : 0..MaxDoubleYIn,
     x_field_channels : 0..MaxDoubleField,
     y_field_channels : 0..MaxDoubleField,
     in_channel_dim : 1..MaxInChannelDim, ignore_cover : BOOLEAN]

\* what the constructor does once the parameter checks passed
DoubleRectBuild(a, cells, conns) ==
    LET ocd == a.in_channel_dim * a.x_field_channels * a.y_field_channels
        xl == a.x_in_channels \div a.x_field_channels
        yl == a.y_in_channels \div a.y_field_channels
        out_channels == xl * yl + (xl - 1) * (yl - 1)
        idim == a.x_in_channels * a.y_in_channels * a.in_channel_dim
        err == IF \E c \in Elems(cells) :
                     ~InImage(a.x_in_channels, a.y_in_channels, c[1], c[2])
               THEN "OutOfRange"
               ELSE IF AssignRaises(out_channels * ocd, Len(cells),
                                    a.in_channel_dim)
                    THEN "ValueError"
               ELSE SwitchboardCheck(idim, conns)
    IN  IF err # "ok"
        THEN NoObject("DoubleRect2dSwitchboard", a, err)
        ELSE /\ cls' = "DoubleRect2dSwitchboard"
             /\ SwitchboardFields(idim, conns)
             /\ out_channel_dim' = ocd
             /\ in_channel_dim' = a.in_channel_dim
             /\ output_channels' = Len(conns) \div ocd
             /\ geom' = [x_unused_channels |->
                            DoubleRectUnused(a.x_in_channels,
                                             a.x_field_channels),
                         y_unused_channels |->
                            DoubleRectUnused(a.y_in_channels,
                                             a.y_field_channels),
                         x_long_out_channels |-> xl,
                         y_long_out_channels |-> yl]
             /\ op' = "DoubleRect2dSwitchboard"
             /\ arg' = a
             /\ ret' = << >>
             /\ raised' = "none"
             /\ chain' = NoChain

DoubleRect2dSwitchboardInit ==
    /\ op = "none"
    /\ \E a \in DoubleRectArgs :
        IF DoubleRectCheck(a) # "ok"
        THEN NoObject("DoubleRect2dSwitchboard", a, DoubleRectCheck(a))
        ELSE LET ocd == a.in_channel_dim * a.x_field_channels
                            * a.y_field_channels
                 xl == a.x_in_channels \div a.x_field_channels
                 yl == a.y_in_channels \div a.y_field_channels
             IN  \E cells \in {DoubleRectCells(a)} :
                 \E conns \in {FillZeros((xl * yl + (xl - 1) * (yl - 1)) * ocd,
                                  CellSlots(a.x_in_channels, a.y_in_channels,
                                            cells, a.in_channel_dim))} :
                     DoubleRectBuild(a, cells, conns)

NextDoubleRect == DoubleRect2dSwitchboardInit

SpecDoubleRect == Init /\ [][NextDoubleRect]_vars

(* ---------------------- DoubleRhomb2dSwitchboard ----------------------- *)

\* 1 when the first field starts in a short row
StartedInShort(a) ==
    IF a.x_long_in_channels < a.y_long_in_channels THEN 1 ELSE 0

\* _x_chan_field_range and _y_chan_field_range
RhombXRange(a) ==
    a.x_long_in_channels - (1 - StartedInShort(a)) - a.diag_field_channels
RhombYRange(a) ==
    a.y_long_in_channels - StartedInShort(a) - a.diag_field_channels

\* the exception raised by the parameter checks, in the order of the code
RhombCheck(a) ==
    LET d == a.diag_field_channels
    IN  IF d % 2 # 0 THEN "OddFieldSize"
        ELSE IF d \div 2 = 0 THEN "ZeroDivisionError"
        ELSE IF RhombXRange(a) % (d \div 2) # 0 \/ RhombXRange(a) < 0
             THEN "IncompatibleFieldSize"
        ELSE IF RhombYRange(a) % (d \div 2) # 0 \/ RhombYRange(a) < 0
             THEN "IncompatibleFieldSize"
        ELSE "ok"

\* input_dim as the constructor computes it
RhombInputDim(a) ==
    (2 * a.x_long_in_channels * a.y_long_in_channels
       - a.x_long_in_channels - a.y_long_in_channels + 1) * a.in_channel_dim

\* x_out_channels and y_out_channels
RhombXOut(a) == (2 * RhombXRange(a)) \div a.diag_field_channels + 1
RhombYOut(a) == (2 * RhombYRange(a)) \div a.diag_field_channels + 1

\* RhombFieldWidth shrinking one row late in the lower half of the field
RhombFieldWidthLate(d, iy) ==
    IF iy <= d - 1 THEN iy + 1 ELSE d - (iy % d)

\* width of the field in its row iy
RhombFieldWidth(d, iy) ==
    IF iy <= d - 1 THEN iy + 1 ELSE d - 1 - (iy % d)

\* the cells of one row of a field as <<row kind, x, y>>: kind 0 is a long
\* row, kind 1 a short row, (x, y) what is handed to that row's translator
RhombRow(a, x_start_chan, y_in_chan, field_width) ==
    LET xs == PyRange(x_start_chan - field_width \div 2,
                      x_start_chan + field_width \div 2 + (field_width % 2))
    IN  [i \in DOMAIN xs |->
            IF y_in_chan % 2 = 0
            THEN <<0, xs[i] + StartedInShort(a), y_in_chan \div 2>>
            ELSE <<1, xs[i], y_in_chan \div 2>>]

\* the cells of the field of one output channel, row by row
RhombField(a, x_out_chan, y_out_chan) ==
    LET d == a.diag_field_channels
        x_start_chan == ((1 + x_out_chan) * d) \div 2 - StartedInShort(a)
        y_start_chan == y_out_chan * d + StartedInShort(a)
        ys == PyRange(y_start_chan, y_start_chan + (2 * d - 1))
    IN  Concat([k \in DOMAIN ys |->
            RhombRow(a, x_start_chan, ys[k], RhombFieldWidth(d, k - 1))])

\* the cells visited by the loops over all output channels
RhombCells(a) ==
    LET y_out == PyRange(0, RhombYOut(a))
        x_out == PyRange(0, RhombXOut(a))
    IN  Concat([j \in DOMAIN y_out |->
          Concat([i \in DOMAIN x_out |-> RhombField(a, x_out[i], y_out[j])])])

\* the range checks of the translator a cell is handed to
RhombCellOk(a, c) ==
    IF c[1] = 0
    THEN InImage(a.x_long_in_channels, a.y_long_in_channels, c[2], c[3])
    ELSE InImage(a.x_long_in_channels - 1, a.y_long_in_channels - 1,
                 c[2], c[3])

\* RhombFirstInCon expecting the short rows first, then the long rows
RhombFirstInConShortFirst(a, c) ==
    IF c[1] = 0
    THEN (image_to_index(a.x_long_in_channels, a.y_long_in_channels,
                         c[2], c[3])
          + (a.x_long_in_channels - 1) * (a.y_long_in_channels - 1))
         * a.in_channel_dim
    ELSE image_to_index(a.x_long_in_channels - 1, a.y_long_in_channels - 1,
                        c[2], c[3]) * a.in_channel_dim

\* first_in_con of a cell
RhombFirstInCon(a, c) ==
    IF c[1] = 0
    THEN image_to_index(a.x_long_in_channels, a.y_long_in_channels,
                        c[2], c[3]) * a.in_channel_dim
    ELSE (image_to_index(a.x_long_in_channels - 1, a.y_long_in_channels - 1,
                         c[2], c[3])
          + a.x_long_in_channels * a.y_long_in_channels) * a.in_channel_dim

\* the slots written for the cells visited, in order
RhombSlots(a, cells) ==
    Concat([i \in DOMAIN cells |->
        PyRange(RhombFirstInCon(a, cells[i]),
                RhombFirstInCon(a, cells[i]) + a.in_channel_dim)])

RhombArgs ==
    [x_long_in_channels : 1..MaxLongIn, y_long_in_channels : 1..MaxLongIn,
     diag_field_channels : 0..MaxDiag, in_channel_dim : 1..MaxInChannelDim]

\* what the constructor does once the parameter checks passed
RhombBuild(a, cells, conns) ==
    LET ocd == a.in_channel_dim * a.diag_field_channels * a.diag_field_channels
        err == IF \E c \in Elems(cells) : ~RhombCellOk(a, c)
               THEN "OutOfRange"
               ELSE IF AssignRaises(RhombXOut(a) * RhombYOut(a) * ocd,
                                    Len(cells), a.in_channel_dim)
                    THEN "ValueError"
               ELSE SwitchboardCheck(RhombInputDim(a), conns)
    IN  IF err # "ok"
        THEN NoObject("DoubleRhomb2dSwitchboard", a, err)
        ELSE /\ cls' = "DoubleRhomb2dSwitchboard"
             /\ SwitchboardFields(RhombInputDim(a), conns)
             /\ out_channel_dim' = ocd
             /\ in_channel_dim' = a.in_channel_dim
             /\ output_channels' = Len(conns) \div ocd
             /\ geom' = [diag_field_channels |-> a.diag_field_channels,
                         x_out_channels |-> RhombXOut(a),
                         y_out_channels |-> RhombYOut(a)]
             /\ op' = "DoubleRhomb2dSwitchboard"
             /\ arg' = a
             /\ ret' = << >>
             /\ raised' = "none"
             /\ chain' = NoChain

\* the constructor called with the parameters a
RhombConstruct(a) ==
    IF RhombCheck(a) # "ok"
    THEN NoObject("DoubleRhomb2dSwitchboard", a, RhombCheck(a))
    ELSE \E cells \in {RhombCells(a)} :
         \E conns \in {FillZeros(RhombXOut(a) * RhombYOut(a)
                                   * a.in_channel_dim
                                   * a.diag_field_channels
                                   * a.diag_field_channels,
                                 RhombSlots(a, cells))} :
             RhombBuild(a, cells, conns)

DoubleRhomb2dSwitchboardInit ==
    /\ op = "none"
    /\ \E a \in RhombArgs : RhombConstruct(a)

NextRhomb == DoubleRhomb2dSwitchboardInit

SpecRhomb == Init /\ [][NextRhomb]_vars

(* ------------- DoubleRhomb2dSwitchboard over DoubleRect2dSwitchboard ---- *)

\* The rhombic switchboard of the next layer is built over the output
\* channels of a double-cover switchboard: its long-row counts are that
\* switchboard's x_long_out_channels and y_long_out_channels.  The lower
\* switchboard is kept with the arguments as field below.
DoubleRhombOverDoubleRect ==
    /\ cls = "DoubleRect2dSwitchboard"
    /\ op = "DoubleRect2dSwitchboard"
    /\ \E d \in 0..MaxDiag, c \in 1..MaxInChannelDim :
        RhombConstruct(
            [x_long_in_channels |-> geom.x_long_out_channels,
             y_long_in_channels |-> geom.y_long_out_channels,
             diag_field_channels |-> d,
             in_channel_dim |-> c,
             below |-> [arg |-> arg,
                        connections |-> connections,
                        output_channels |-> output_channels,
                        out_channel_dim |-> out_channel_dim,
                        in_channel_dim |-> in_channel_dim]])

NextLayers == DoubleRect2dSwitchboardInit \/ DoubleRhombOverDoubleRect

SpecLayers == Init /\ [][NextLayers]_vars

(* ------------------- claims on the generic Switchboard ----------------- *)

\* the entries of s are exactly 0..n-1, each once
IsPermutation(n, s) ==
    /\ Len(s) = n
    /\ \A e \in 0..(n - 1) : Cardinality({i \in 1..Len(s) : s[i] = e}) = 1

\* C1: on every accepted switchboard with is_invertible() true, apply never
\* fails, unapply(apply(v)) = v and apply(unapply(w)) = w.
C1_RoundTrip ==
    (cls # "none" /\ is_invertible) =>
        /\ op = "execute" => raised = "none"
        /\ (op = "inverse" /\ chain.op = "execute" /\ raised = "none")
                => ret = chain.arg
        /\ (op = "execute" /\ chain.op = "inverse" /\ raised = "none")
                => ret = chain.arg

\* C2: is_invertible() is true iff input_dim = output_dim and the entries are
\* exactly 0..input_dim-1 each once; then inv[connections[i]] = i for every
\* output slot i, and otherwise no inverse table is stored.
C2_InvertibleIffPermutation ==
    cls # "none" =>
        /\ is_invertible <=>
               (input_dim = output_dim /\ IsPermutation(input_dim, connections))
        /\ is_invertible =>
               \A i \in 1..Len(connections) :
                   /\ connections[i] + 1 \in 1..Len(inverse_connections)
                   /\ inverse_connections[connections[i] + 1] = i - 1
        /\ ~is_invertible => inverse_connections = None

\* C3: the table of every constructed switchboard is non-empty and every
\* entry e satisfies 0 <= e < input_dim.
C3_EntriesInRange ==
    cls # "none" =>
        /\ Len(connections) > 0
        /\ \A i \in 1..Len(connections) :
               0 <= connections[i] /\ connections[i] < input_dim

\* C4: construction fails with InvalidConnections on an empty sequence and on
\* a largest entry >= input_dim; otherwise it succeeds with output_dim the
\* length of the sequence and the table equal to the sequence.
C4_ConstructionErrors ==
    op = "Switchboard" =>
        LET c == arg.connections
            d == arg.input_dim
        IN  IF Len(c) = 0 \/ (\E i \in 1..Len(c) : c[i] >= d)
            THEN raised = "InvalidConnections" /\ cls = "none"
            ELSE /\ raised = "none"
                 /\ cls = "Switchboard"
                 /\ input_dim = d
                 /\ output_dim = Len(c)
                 /\ connections = c

\* C4 witness: a sequence with an entry equal to input_dim was rejected
C4_Witness ==
    /\ op = "Switchboard"
    /\ raised = "InvalidConnections"
    /\ \E i \in 1..Len(arg.connections) : arg.connections[i] = arg.input_dim

C10_CoveredInputChannels ==
    (/\ op = "get_out_channels_input_channels"
     /\ output_dim % out_channel_dim = 0
     /\ input_dim % in_channel_dim = 0
     /\ \A i \in 1..Len(arg.channels) : arg.channels[i] < output_channels)
    =>  /\ raised = "none"
        /\ \A i \in 1..(Len(ret) - 1) : ret[i] < ret[i + 1]
        /\ Elems(ret) =
              {e \div in_channel_dim :
                 e \in UNION {Elems(get_out_channel_input(arg.channels[i])) :
                                i \in 1..Len(arg.channels)}}

(* ------------------ claims on Rectangular2dSwitchboard ----------------- *)

\* C6: an accepted parameter set gives x_out_channels = (x_in - x_field) div
\* x_spacing + 1 (likewise y), out_channel_dim = in_channel_dim * x_field *
\* y_field, output_dim = x_out_channels * y_out_channels * out_channel_dim
\* and every index in [0, input_dim), input_dim = x_in * y_in * in_channel_dim;
\* the 6x4 grid with 2x2 fields, spacing 2 and in_channel_dim 1 is accepted
\* and gives 6 output channels of size 4 with no unused channels.
C6_RectSizeAndRange ==
    op = "Rectangular2dSwitchboard" =>
        /\ raised = "none" =>
            /\ arg.x_field_spacing >= 1 /\ arg.y_field_spacing >= 1
            /\ geom.x_out_channels =
                  (arg.x_in_channels - arg.x_field_channels)
                      \div arg.x_field_spacing + 1
            /\ geom.y_out_channels =
                  (arg.y_in_channels - arg.y_field_channels)
                      \div arg.y_field_spacing + 1
            /\ out_channel_dim = arg.in_channel_dim * arg.x_field_channels
                                      * arg.y_field_channels
            /\ output_dim = geom.x_out_channels * geom.y_out_channels
                                * out_channel_dim
            /\ Len(connections) = output_dim
            /\ input_dim = arg.x_in_channels * arg.y_in_channels
                               * arg.in_channel_dim
            /\ \A i \in 1..Len(connections) :
                   0 <= connections[i] /\ connections[i] < input_dim
        /\ (/\ arg.x_in_channels = 6 /\ arg.y_in_channels = 4
            /\ arg.x_field_channels = 2 /\ arg.y_field_channels = 2
            /\ arg.x_field_spacing = 2 /\ arg.y_field_spacing = 2
            /\ arg.in_channel_dim = 1) =>
            /\ raised = "none"
            /\ output_channels = 6
            /\ geom.x_out_channels = 3 /\ geom.y_out_channels = 2
            /\ out_channel_dim = 4
            /\ geom.x_unused_channels = 0 /\ geom.y_unused_channels = 0

\* C6 witness: the 6x4 example was built without ignore_cover
C6_Witness ==
    /\ op = "Rectangular2dSwitchboard"
    /\ raised = "none"
    /\ arg.x_in_channels = 6 /\ arg.y_in_channels = 4
    /\ arg.x_field_channels = 2 /\ arg.y_field_channels = 2
    /\ arg.x_field_spacing = 2 /\ arg.y_field_spacing = 2
    /\ arg.in_channel_dim = 1 /\ ~arg.ignore_cover
    /\ output_dim = 24

\* C7: when ignore_cover is false and construction succeeds, every input
\* channel of the grid lies in the field of at least one output channel.
C7_RectCoverage ==
    (op = "Rectangular2dSwitchboard" /\ raised = "none" /\ ~arg.ignore_cover)
    => \A x \in 0..(arg.x_in_channels - 1), y \in 0..(arg.y_in_channels - 1) :
          \E i \in 1..Len(connections) :
              connections[i] \div in_channel_dim = y * arg.x_in_channels + x

\* C8: whenever x_field > x_in or y_field > y_in construction fails with
\* FieldTooLarge and produces no switchboard, whatever the spacings,
\* in_channel_dim and ignore_cover are.
C8_FieldTooLargeFirst ==
    (/\ op = "Rectangular2dSwitchboard"
     /\ \/ arg.x_field_channels > arg.x_in_channels
        \/ arg.y_field_channels > arg.y_in_channels)
    => raised = "FieldTooLarge" /\ cls = "none"

\* C8 witness: the y field is too large while the x axis alone would fail
\* the coverage check
C8_Witness ==
    /\ op = "Rectangular2dSwitchboard"
    /\ raised = "FieldTooLarge"
    /\ arg.y_field_channels > arg.y_in_channels
    /\ arg.x_field_channels <= arg.x_in_channels
    /\ arg.x_field_spacing > 0
    /\ ~arg.ignore_cover
    /\ RectUnused(arg.x_in_channels, arg.x_field_channels,
                  arg.x_field_spacing) # 0

\* slot j of cell k of output channel c in the table of a rectangular
\* switchboard (all 0-based)
RectSlot(c, k, j) ==
    connections[c * out_channel_dim + k * in_channel_dim + j + 1]

\* the slot the grid position (x, y) contributes as its j-th
RectGridSlot(x, y, j) == (y * arg.x_in_channels + x) * in_channel_dim + j

\* C13 as stated: output channels are numbered row-major and inside each
\* channel the k-th cell is (x_start + k mod x_field, y_start + k div
\* x_field), i.e. y outer, x inner; each cell contributes in_channel_dim
\* consecutive slots from (y * x_in + x) * in_channel_dim.
C13_RectOrderRowsFirst ==
    (op = "Rectangular2dSwitchboard" /\ raised = "none") =>
      \A c \in 0..(output_channels - 1) :
      \A k \in 0..(arg.x_field_channels * arg.y_field_channels - 1) :
      \A j \in 0..(in_channel_dim - 1) :
        LET x_start == (c % geom.x_out_channels) * arg.x_field_spacing
            y_start == (c \div geom.x_out_channels) * arg.y_field_spacing
        IN  RectSlot(c, k, j) =
              RectGridSlot(x_start + (k % arg.x_field_channels),
                           y_start + (k \div arg.x_field_channels), j)

\* C13 amended: output channels are numbered row-major and inside each
\* channel the cells are emitted columns first (x outer, y inner): the k-th
\* cell is (x_start + k div y_field, y_start + k mod y_field); each cell
\* contributes in_channel_dim consecutive slots from (y * x_in + x) *
\* in_channel_dim.
C13_RectOrderColumnsFirst ==
    (op = "Rectangular2dSwitchboard" /\ raised = "none") =>
      /\ output_channels = geom.x_out_channels * geom.y_out_channels
      /\ \A c \in 0..(output_channels - 1) :
         \A k \in 0..(arg.x_field_channels * arg.y_field_channels - 1) :
         \A j \in 0..(in_channel_dim - 1) :
           LET x_start == (c % geom.x_out_channels) * arg.x_field_spacing
               y_start == (c \div geom.x_out_channels) * arg.y_field_spacing
           IN  RectSlot(c, k, j) =
                 RectGridSlot(x_start + (k \div arg.y_field_channels),
                              y_start + (k % arg.y_field_channels), j)

\* C13 witness: several channels on both axes, a 3x2 field, two slots per
\* input channel
C13_Witness ==
    /\ op = "Rectangular2dSwitchboard"
    /\ raised = "none"
    /\ arg.x_field_channels = 3 /\ arg.y_field_channels = 2
    /\ geom.x_out_channels >= 2 /\ geom.y_out_channels >= 2
    /\ in_channel_dim = 2

(* ------------------- claims on DoubleRect2dSwitchboard ----------------- *)

\* C9: whenever x_field_channels or y_field_channels is odd construction
\* fails with OddFieldSize and produces no switchboard, for every grid size,
\* in_channel_dim and ignore_cover.
C9_OddFieldSizeFirst ==
    (/\ op = "DoubleRect2dSwitchboard"
     /\ arg.x_field_channels % 2 = 1 \/ arg.y_field_channels % 2 = 1)
    => raised = "OddFieldSize" /\ cls = "none"

\* C9 witness: an odd y field together with an x field larger than the grid
C9_Witness ==
    /\ op = "DoubleRect2dSwitchboard"
    /\ raised = "OddFieldSize"
    /\ arg.y_field_channels % 2 = 1
    /\ arg.x_field_channels % 2 = 0
    /\ arg.x_field_channels > arg.x_in_channels

\* the input channels of output channel c (0-based) of a channel switchboard
ChannelInputChannels(c) ==
    {connections[c * out_channel_dim + k] \div in_channel_dim :
        k \in 1..out_channel_dim}

\* the input channels of the x_field by y_field rectangle whose top-left
\* cell is (x0, y0)
FieldRectangle(x0, y0) ==
    {y * arg.x_in_channels + x :
        x \in x0..(x0 + arg.x_field_channels - 1),
        y \in y0..(y0 + arg.y_field_channels - 1)}

\* C14: with xl = x_in div x_field and yl = y_in div y_field the table holds
\* xl*yl + (xl-1)*(yl-1) output channels of in_channel_dim*x_field*y_field
\* slots; the first xl*yl are the aligned fields, row-major, top-left cell
\* (i*x_field, j*y_field); the (xl-1)*(yl-1) offset fields follow, row-major,
\* top-left cell (i*x_field + x_field/2, j*y_field + y_field/2); every index
\* lies in [0, input_dim).
C14_DoubleRectLayout ==
    (op = "DoubleRect2dSwitchboard" /\ raised = "none") =>
      LET xf == arg.x_field_channels
          yf == arg.y_field_channels
          xl == arg.x_in_channels \div xf
          yl == arg.y_in_channels \div yf
          first(c) == connections[c * out_channel_dim + 1]
      IN
        /\ out_channel_dim = arg.in_channel_dim * xf * yf
        /\ output_channels = xl * yl + (xl - 1) * (yl - 1)
        /\ Len(connections) = output_channels * out_channel_dim
        /\ input_dim = arg.x_in_channels * arg.y_in_channels
                           * arg.in_channel_dim
        /\ \A p \in 1..Len(connections) :
               0 <= connections[p] /\ connections[p] < input_dim
        /\ \A j \in 0..(yl - 1), i \in 0..(xl - 1) :
             LET c == j * xl + i
             IN  /\ first(c) = ((j * yf) * arg.x_in_channels + i * xf)
                                    * in_channel_dim
                 /\ ChannelInputChannels(c) = FieldRectangle(i * xf, j * yf)
        /\ \A j \in 0..(yl - 2), i \in 0..(xl - 2) :
             LET c == xl * yl + j * (xl - 1) + i
                 x0 == i * xf + xf \div 2
                 y0 == j * yf + yf \div 2
             IN  /\ first(c) = (y0 * arg.x_in_channels + x0) * in_channel_dim
                 /\ ChannelInputChannels(c) = FieldRectangle(x0, y0)

\* C14 witness: the 6x4 grid with 2x2 fields: 6 aligned fields, then 2
\* offset fields
C14_Witness ==
    /\ op = "DoubleRect2dSwitchboard"
    /\ raised = "none"
    /\ arg.x_in_channels = 6 /\ arg.y_in_channels = 4
    /\ arg.x_field_channels = 2 /\ arg.y_field_channels = 2
    /\ output_channels = 8

\* the output channels whose field holds input channel ch
ChannelsCovering(ch) ==
    {c \in 0..(output_channels - 1) : ch \in ChannelInputChannels(c)}

\* C15: when construction succeeds with ignore_cover false, x_in is a
\* multiple of x_field and y_in of y_field; every input channel (x, y) with
\* x_field/2 <= x < x_in - x_field/2 and y_field/2 <= y < y_in - y_field/2
\* lies in the fields of exactly two output channels, one aligned and one
\* offset, and every other input channel in exactly one.
C15_DoubleCover ==
    (op = "DoubleRect2dSwitchboard" /\ raised = "none" /\ ~arg.ignore_cover)
    =>
      LET xf == arg.x_field_channels
          yf == arg.y_field_channels
          aligned == (arg.x_in_channels \div xf) * (arg.y_in_channels \div yf)
      IN
        /\ arg.x_in_channels % xf = 0
        /\ arg.y_in_channels % yf = 0
        /\ \A x \in 0..(arg.x_in_channels - 1),
              y \in 0..(arg.y_in_channels - 1) :
             LET cover == ChannelsCovering(y * arg.x_in_channels + x)
             IN  IF /\ xf \div 2 <= x /\ x < arg.x_in_channels - xf \div 2
                    /\ yf \div 2 <= y /\ y < arg.y_in_channels - yf \div 2
                 THEN /\ Cardinality(cover) = 2
                      /\ \E c \in cover : c < aligned
                      /\ \E c \in cover : c >= aligned
                 ELSE Cardinality(cover) = 1

\* C15 witness: a 4x4 grid with 2x2 fields built with ignore_cover false;
\* its channel (1, 1) lies in the first aligned and in the offset field
C15_Witness ==
    /\ op = "DoubleRect2dSwitchboard"
    /\ raised = "none"
    /\ ~arg.ignore_cover
    /\ arg.x_in_channels = 4 /\ arg.y_in_channels = 4
    /\ arg.x_field_channels = 2 /\ arg.y_field_channels = 2
    /\ ChannelsCovering(5) = {0, 4}

(* -------------------- claims on CoordinateTranslator ------------------- *)

\* C11: on a grid x_dim by y_dim, image_to_index(x, y) = y * x_dim + x;
\* index_to_image undoes image_to_index and array_to_index undoes
\* index_to_array; array_to_index(row, col) = image_to_index(col, row); each
\* of the four conversions fails with OutOfRange exactly on a coordinate or
\* index outside the grid.
C11_TranslatorRoundTrip ==
    cls = "CoordinateTranslator" =>
      LET xd == geom.x_image_dim
          yd == geom.y_image_dim
      IN
        /\ op = "image_to_index" =>
              IF 0 <= arg[1] /\ arg[1] < xd /\ 0 <= arg[2] /\ arg[2] < yd
              THEN raised = "none" /\ ret = <<arg[2] * xd + arg[1]>>
              ELSE raised = "OutOfRange"
        /\ op = "array_to_index" =>
              IF 0 <= arg[1] /\ arg[1] < yd /\ 0 <= arg[2] /\ arg[2] < xd
              THEN /\ raised = "none"
                   /\ ret = <<image_to_index(xd, yd, arg[2], arg[1])>>
              ELSE raised = "OutOfRange"
        /\ op \in {"index_to_array", "index_to_image"} =>
              (raised = "OutOfRange" <=> ~(0 <= arg[1] /\ arg[1] < xd * yd))
        /\ op \in {"index_to_array", "index_to_image"} =>
              raised \in {"none", "OutOfRange"}
        /\ (op = "index_to_image" /\ chain.op = "image_to_index") =>
              raised = "none" /\ ret = chain.arg
        /\ (op = "array_to_index" /\ chain.op = "index_to_array") =>
              raised = "none" /\ ret = chain.arg

\* C11 witness: index_to_image gave back the (x, y) with x # y that
\* image_to_index had been called with
C11_Witness ==
    /\ op = "index_to_image"
    /\ chain.op = "image_to_index"
    /\ chain.arg[1] # chain.arg[2]
    /\ raised = "none"
(* ------------------ claims on DoubleRhomb2dSwitchboard ----------------- *)

\* C12: whenever the evenness and IncompatibleFieldSize checks pass (d even,
\* d >= 2), generation completes without an OutOfRange failure, every output
\* channel consists of exactly d*d input channels, output_dim =
\* x_out_channels * y_out_channels * in_channel_dim * d*d with x_out_channels
\* = 2*x_range div d + 1 and y_out_channels = 2*y_range div d + 1, and every
\* index lies in [0, input_dim); d = 2 over 4x4 long channels gives 6 output
\* channels.
C12_RhombSizeAndRange ==
    (/\ op = "DoubleRhomb2dSwitchboard"
     /\ arg.diag_field_channels >= 2
     /\ raised \notin {"OddFieldSize", "IncompatibleFieldSize"})
    =>
      LET d == arg.diag_field_channels
          short == IF arg.x_long_in_channels < arg.y_long_in_channels
                   THEN 1 ELSE 0
          x_range == arg.x_long_in_channels - (1 - short) - d
          y_range == arg.y_long_in_channels - short - d
      IN
        /\ raised = "none"
        /\ d % 2 = 0
        /\ geom.x_out_channels = (2 * x_range) \div d + 1
        /\ geom.y_out_channels = (2 * y_range) \div d + 1
        /\ out_channel_dim = arg.in_channel_dim * d * d
        /\ output_dim = geom.x_out_channels * geom.y_out_channels
                            * arg.in_channel_dim * d * d
        /\ Len(connections) = output_dim
        /\ output_channels = geom.x_out_channels * geom.y_out_channels
        /\ \A i \in 1..Len(connections) :
               0 <= connections[i] /\ connections[i] < input_dim
        /\ \A c \in 0..(output_channels - 1) :
               Cardinality({connections[c * out_channel_dim + k]
                                \div arg.in_channel_dim :
                            k \in 1..out_channel_dim}) = d * d
        /\ (/\ d = 2
            /\ arg.x_long_in_channels = 4
            /\ arg.y_long_in_channels = 4) => output_channels = 6

\* C12 witness: the 4x4 example with d = 2 was built
C12_Witness ==
    /\ op = "DoubleRhomb2dSwitchboard"
    /\ raised = "none"
    /\ arg.diag_field_channels = 2
    /\ arg.x_long_in_channels = 4
    /\ arg.y_long_in_channels = 4
    /\ geom.x_out_channels = 2
    /\ geom.y_out_channels = 3

(* ------- claims on DoubleRhomb2dSwitchboard over DoubleRect2dSwitchboard *)

\* the grid position (x, y) of the first cell of output channel n of the
\* double-cover switchboard below
BelowTopLeft(n) ==
    LET b == arg.below
        ch == b.connections[n * b.out_channel_dim + 1] \div b.in_channel_dim
    IN  <<ch % b.arg.x_in_channels, ch \div b.arg.x_in_channels>>

\* C16: the input_dim of a rhombic switchboard built over (xl, yl) with
\* in_channel_dim c is (xl*yl + (xl-1)*(yl-1)) * c, the output channel count
\* of the double-cover switchboard below times c; long-row cell (x, y) is
\* addressed as input channel y*xl + x and short-row cell (x, y) as input
\* channel xl*yl + y*(xl-1) + x, the channel the switchboard below gives the
\* aligned resp. offset field at that grid position.
C16_RhombOverDoubleRect ==
    (op = "DoubleRhomb2dSwitchboard" /\ raised = "none") =>
      LET xl == arg.x_long_in_channels
          yl == arg.y_long_in_channels
          xf == arg.below.arg.x_field_channels
          yf == arg.below.arg.y_field_channels
          cells == RhombCells(arg)
      IN
        /\ input_dim = (xl * yl + (xl - 1) * (yl - 1)) * arg.in_channel_dim
        /\ input_dim = arg.below.output_channels * arg.in_channel_dim
        /\ Len(connections) = Len(cells) * in_channel_dim
        /\ \A i \in DOMAIN cells :
             LET n == connections[(i - 1) * in_channel_dim + 1]
                          \div in_channel_dim
                 x == cells[i][2]
                 y == cells[i][3]
             IN  /\ \A j \in 0..(in_channel_dim - 1) :
                        connections[(i - 1) * in_channel_dim + 1 + j]
                            = n * in_channel_dim + j
                 /\ IF cells[i][1] = 0
                    THEN /\ n = y * xl + x
                         /\ BelowTopLeft(n) = <<x * xf, y * yf>>
                    ELSE /\ n = xl * yl + y * (xl - 1) + x
                         /\ BelowTopLeft(n) = <<x * xf + xf \div 2,
                                                y * yf + yf \div 2>>

\* C16 witness: a rhombic switchboard starting in a short row was built over
\* a double-cover switchboard with 2 by 3 long output channels
C16_Witness ==
    /\ op = "DoubleRhomb2dSwitchboard"
    /\ raised = "none"
    /\ arg.x_long_in_channels = 2
    /\ arg.y_long_in_channels = 3
    /\ arg.below.output_channels = 8
    /\ input_dim = 8 * in_channel_dim

====
